---- MODULE Spec2Model ----
(* Model of the cryptosanta room store: backend/storage/room_store.py,      *)
(* backend/models/room.py and the handlers of backend/api/routes.py.        *)
(* Every access to the Modal Dict (rooms_dict.get, rooms_dict.pop,          *)
(* rooms_dict[k] = v) is one atomic step of the calling request; requests   *)
(* run concurrently and interleave between those steps.                     *)
EXTENDS Integers, Sequences, FiniteSets, TLC

VARIABLES
    rooms_dict,        \* the Modal Dict: room id -> JSON document
    now,               \* datetime.utcnow(), in seconds
    pc,                \* per worker: the store access its request makes next
    op,                \* per worker: the RoomStore operation under way
    arg,               \* per worker: the arguments of the request
    room,              \* per worker: the local Room being built (None or <<r>>)
    expected_version,  \* per worker: the local expected_version
    attempt,           \* per worker: the loop index of the retry loop
    result,            \* outcome of the request that ended last
    calls,             \* number of requests still to arrive
    committed,         \* history: the expected_version of every write made
    acked,             \* history: keys and blobs whose request returned success
    evicted            \* history: get_room has popped the expired record

vars == <<rooms_dict, now, pc, op, arg, room, expected_version,
          attempt, result, calls, committed, acked, evicted>>

\* ---------------------------------------------------------------- bounds
NumProcs == 2
MaxCalls == 2

Procs == 1..NumProcs

\* ------------------------------------------------------ program constants
ROOM_TTL_SECONDS == 30 * 24 * 60 * 60
MAX_RETRIES == 5

\* ----------------------------------------------------------------- inputs
RoomId == "r1"
Keys == {"k1", "k2", "k3", "k4"}
Blobs == {"b1", "b2"}
\* POST /sort requests <<sortedKeys, X-Chair-Secret>>; the header is absent
\* (<<>>) or <<value>>
SortRequests ==
    { << <<"s1", "s2", "s3">>, <<"santa">> >>,
      << <<"s1", "s2">>, <<"santa">> >>,
      << <<"s1", "s1", "s2">>, <<"santa">> >>,
      << <<"s1", "s2", "s3">>, <<"grinch">> >>,
      << <<"s1", "s2", "s3">>, <<"">> >>,
      << <<"s1", "s2", "s3">>, <<>> >> }

\* hashlib.sha256(...).hexdigest(), tabulated on the secrets in use
sha256(s) == CASE s = "" -> "e3b0c442"
               [] s = "santa" -> "5f2b9323"
               [] s = "grinch" -> "a1d0c6e8"

\* Optional[Room]: None is the empty sequence, a room r is <<r>>
None == <<>>
Some(r) == <<r>>

Range(s) == { s[i] : i \in DOMAIN s }

\* ------------------------------------------------------------- Room model
\* Room(...) with the defaults of the pydantic model
Room(id, P, g, session_public_key, chair_secret_hash, created_at) ==
    [ id |-> id, status |-> "OPEN", params |-> [P |-> P, g |-> g],
      session_public_key |-> session_public_key,
      chair_secret_hash |-> chair_secret_hash,
      participants |-> <<>>, sorted_keys |-> <<>>, messages |-> <<>>,
      created_at |-> created_at, version |-> 0 ]

\* The JSON document is the tuple of the field values in declaration order
model_dump_json(r) ==
    << r.id, r.status, <<r.params.P, r.params.g>>, r.session_public_key,
       r.chair_secret_hash, r.participants, r.sorted_keys, r.messages,
       r.created_at, r.version >>

model_validate_json(d) ==
    [ id |-> d[1], status |-> d[2], params |-> [P |-> d[3][1], g |-> d[3][2]],
      session_public_key |-> d[4], chair_secret_hash |-> d[5],
      participants |-> d[6], sorted_keys |-> d[7], messages |-> d[8],
      created_at |-> d[9], version |-> d[10] ]

\* ------------------------------------------------------------ Modal Dict
EmptyDict == [k \in {} |-> <<>>]

\* rooms_dict[key] = value
DictPut(d, key, value) ==
    [k \in DOMAIN d \cup {key} |-> IF k = key THEN value ELSE d[k]]

\* rooms_dict.pop(key), the KeyError of a missing key swallowed
DictPop(d, key) == [k \in DOMAIN d \ {key} |-> d[k]]

\* datetime.utcnow() - room.created_at > timedelta(seconds=ROOM_TTL_SECONDS)
Expired(r) == now - r.created_at > ROOM_TTL_SECONDS

\* ------------------------------------------------------------ access gate
\* verify_chair(room, chair_secret)
verify_chair(r, chair_secret) ==
    IF chair_secret = <<>> \/ chair_secret = <<"">>
    THEN FALSE
    ELSE sha256(chair_secret[1]) = r.chair_secret_hash

\* ------------------------------------------- bodies of the store operations
\* What one pass over the body of an operation does with the room that
\* get_room returned: raise, or build the record to write and capture the
\* version it was built from.
Raise(e) == [raise |-> e, room |-> None, expected_version |-> 0]
Proceed(r, v) == [raise |-> "", room |-> Some(r), expected_version |-> v]

\* add_participant without the membership test of line 91
add_participant_no_duplicate_test(r, encrypted_key) ==
    IF r = None THEN Raise("ValueError: Room not found")
    ELSE IF r[1].status # "OPEN" THEN Raise("ValueError: Registration is closed")
    ELSE Proceed([r[1] EXCEPT !.participants = Append(@, encrypted_key)],
                 r[1].version)

add_participant(r, encrypted_key) ==
    IF r = None THEN Raise("ValueError: Room not found")
    ELSE IF r[1].status # "OPEN" THEN Raise("ValueError: Registration is closed")
    ELSE IF encrypted_key \in Range(r[1].participants)
         THEN Raise("ValueError: Duplicate registration")
    ELSE Proceed([r[1] EXCEPT !.participants = Append(@, encrypted_key)],
                 r[1].version)

\* set_sorted_keys without the count test of lines 121-125
set_sorted_keys_no_count_test(r, sorted_keys) ==
    IF r = None THEN Raise("ValueError: Room not found")
    ELSE IF r[1].status # "OPEN" THEN Raise("ValueError: Room is not in OPEN state")
    ELSE IF Len(sorted_keys) < 3
         THEN Raise("ValueError: Minimum 3 participants required")
    ELSE IF Len(sorted_keys) # Cardinality(Range(sorted_keys))
         THEN Raise("ValueError: Duplicate keys in sorted list")
    ELSE Proceed([r[1] EXCEPT !.sorted_keys = sorted_keys, !.status = "SORTED"],
                 r[1].version)

\* set_sorted_keys without the minimum test of lines 117-118
set_sorted_keys_no_minimum(r, sorted_keys) ==
    IF r = None THEN Raise("ValueError: Room not found")
    ELSE IF r[1].status # "OPEN" THEN Raise("ValueError: Room is not in OPEN state")
    ELSE IF Len(sorted_keys) # Len(r[1].participants)
         THEN Raise("ValueError: Sorted keys count must match participants count")
    ELSE IF Len(sorted_keys) # Cardinality(Range(sorted_keys))
         THEN Raise("ValueError: Duplicate keys in sorted list")
    ELSE Proceed([r[1] EXCEPT !.sorted_keys = sorted_keys, !.status = "SORTED"],
                 r[1].version)

set_sorted_keys(r, sorted_keys) ==
    IF r = None THEN Raise("ValueError: Room not found")
    ELSE IF r[1].status # "OPEN" THEN Raise("ValueError: Room is not in OPEN state")
    ELSE IF Len(sorted_keys) < 3
         THEN Raise("ValueError: Minimum 3 participants required")
    ELSE IF Len(sorted_keys) # Len(r[1].participants)
         THEN Raise("ValueError: Sorted keys count must match participants count")
    ELSE IF Len(sorted_keys) # Cardinality(Range(sorted_keys))
         THEN Raise("ValueError: Duplicate keys in sorted list")
    ELSE Proceed([r[1] EXCEPT !.sorted_keys = sorted_keys, !.status = "SORTED"],
                 r[1].version)

\* add_message with > for >= in the slot test of line 154
add_message_slot_off_by_one(r, message_blob) ==
    IF r = None THEN Raise("ValueError: Room not found")
    ELSE IF r[1].status = "OPEN"
         THEN Raise("ValueError: Cannot send messages before sorting")
    ELSE IF Len(r[1].messages) > Len(r[1].sorted_keys)
         THEN Raise("ValueError: All participants have already submitted")
    ELSE Proceed([r[1] EXCEPT
                    !.status = IF @ = "SORTED" THEN "MESSAGING" ELSE @,
                    !.messages = Append(@, message_blob)],
                 r[1].version)

\* add_message without the status change of lines 160-161
add_message_keeps_status(r, message_blob) ==
    IF r = None THEN Raise("ValueError: Room not found")
    ELSE IF r[1].status = "OPEN"
         THEN Raise("ValueError: Cannot send messages before sorting")
    ELSE IF Len(r[1].messages) >= Len(r[1].sorted_keys)
         THEN Raise("ValueError: All participants have already submitted")
    ELSE Proceed([r[1] EXCEPT !.messages = Append(@, message_blob)],
                 r[1].version)

add_message(r, message_blob) ==
    IF r = None THEN Raise("ValueError: Room not found")
    ELSE IF r[1].status = "OPEN"
         THEN Raise("ValueError: Cannot send messages before sorting")
    ELSE IF Len(r[1].messages) >= Len(r[1].sorted_keys)
         THEN Raise("ValueError: All participants have already submitted")
    ELSE Proceed([r[1] EXCEPT
                    !.status = IF @ = "SORTED" THEN "MESSAGING" ELSE @,
                    !.messages = Append(@, message_blob)],
                 r[1].version)

Body(o, r, a) ==
    CASE o = "add_participant" -> add_participant(r, a)
      [] o = "set_sorted_keys" -> set_sorted_keys(r, a)
      [] o = "add_message" -> add_message(r, a)

\* _update_room_with_version, lines 60-62: the version check on the re-read
version_matches(current, expected) ==
    ~(current = None \/ current[1].version # expected)

\* the write of lines 64-65 stamping the document with the time of the write
updated_document_stamps_time(r, expected) ==
    model_dump_json([r EXCEPT !.version = expected + 1, !.created_at = now])

\* _update_room_with_version, lines 64-65: the document that is written
updated_document(r, expected) ==
    model_dump_json([r EXCEPT !.version = expected + 1])

\* The room stored under RoomId, as get would parse it (None if absent)
Stored ==
    IF RoomId \in DOMAIN rooms_dict
    THEN Some(model_validate_json(rooms_dict[RoomId]))
    ELSE None

\* ---------------------------------------------------------- initial state
\* create_room: POST /room builds the Room and stores its document
create_room(d, r) == DictPut(d, r.id, model_dump_json(r))

NewRoom == Room(RoomId, "23", "5", "spk", sha256("santa"), 0)

\* The protocol run of one room, request after request: three
\* registrations, the sort, then one message per participant.
Script ==
    << <<"add_participant", "k1">>, <<"add_participant", "k2">>,
       <<"add_participant", "k3">>, <<"set_sorted_keys", <<"s1", "s2", "s3">> >>,
       <<"add_message", "b1">>, <<"add_message", "b2">>,
       <<"add_message", "b1">> >>

\* The stored room after the first n requests of the script, each run to
\* completion before the next one starts.
RECURSIVE RoomAfter(_)
RoomAfter(n) ==
    IF n = 0
    THEN model_validate_json(create_room(EmptyDict, NewRoom)[RoomId])
    ELSE LET b == Body(Script[n][1], Some(RoomAfter(n - 1)), Script[n][2])
         IN  model_validate_json(updated_document(b.room[1], b.expected_version))

\* The room was created at time 0 and some prefix of the script has run;
\* no request is in flight.
Init ==
    \E n \in 0..Len(Script) :
        /\ now = 0
        /\ rooms_dict = DictPut(EmptyDict, RoomId, model_dump_json(RoomAfter(n)))
        /\ committed = 0..(n - 1)
        /\ acked = { Script[i][2] : i \in {j \in 1..n : Script[j][1] # "set_sorted_keys"} }
        /\ pc = [p \in Procs |-> "idle"]
        /\ op = [p \in Procs |-> "none"]
        /\ arg = [p \in Procs |-> <<>>]
        /\ room = [p \in Procs |-> None]
        /\ expected_version = [p \in Procs |-> 0]
        /\ attempt = [p \in Procs |-> 0]
        /\ result = [proc |-> 0, op |-> "none", outcome |-> "none"]
        /\ calls = MaxCalls
        /\ evicted = FALSE

\* ------------------------------------------------------ request-local state
Local(p, npc, nop, narg, nroom, nev, natt, nres) ==
    /\ pc' = [pc EXCEPT ![p] = npc]
    /\ op' = [op EXCEPT ![p] = nop]
    /\ arg' = [arg EXCEPT ![p] = narg]
    /\ room' = [room EXCEPT ![p] = nroom]
    /\ expected_version' = [expected_version EXCEPT ![p] = nev]
    /\ attempt' = [attempt EXCEPT ![p] = natt]
    /\ result' = nres

\* the request of worker p, running operation o, ends with this outcome;
\* result is the outcome of the request that ended last
Finish(p, o, res) ==
    Local(p, "idle", "none", <<>>, None, 0, 0, [proc |-> p, op |-> o, outcome |-> res])

\* --------------------------------------------------- where get_room returns
\* The caller of get_room resumes with its result r (None or Some(room)).
\* site names the call of get_room, o and a the operation under way and its
\* arguments, att the index of the current pass of the retry loop.
\* Resume with the retry loop running over range(MAX_RETRIES + 1)
Resume_one_retry_too_many(p, site, o, a, att, r) ==
    CASE site = "route_get" ->
           Finish(p, o, IF r = None THEN "404" ELSE "200")
      [] site = "route_sort" ->
           IF r = None THEN Finish(p, o, "404")
           ELSE IF ~verify_chair(r[1], a[2]) THEN Finish(p, o, "403")
           ELSE Local(p, "op_get", o, <<a[1]>>, None, 0, 0, result)
      [] site = "op_get" ->
           LET b == Body(o, r, a[1]) IN
           IF b.raise # "" THEN Finish(p, o, b.raise)
           ELSE Local(p, "upd_get", o, a, b.room, b.expected_version, att, result)
      [] site = "upd_get" ->
           IF version_matches(r, expected_version[p])
           THEN Local(p, "upd_write", o, a, room[p], expected_version[p], att, result)
           ELSE IF o = "set_sorted_keys"
           THEN Finish(p, o, "ConcurrentModificationError")
           ELSE IF att < MAX_RETRIES
           THEN Local(p, "op_get", o, a, None, 0, att + 1, result)
           ELSE Finish(p, o, "ConcurrentModificationError")

\* Resume with set_sorted_keys in the retry loop of the other operations
Resume_sort_retries(p, site, o, a, att, r) ==
    CASE site = "route_get" ->
           Finish(p, o, IF r = None THEN "404" ELSE "200")
      [] site = "route_sort" ->
           IF r = None THEN Finish(p, o, "404")
           ELSE IF ~verify_chair(r[1], a[2]) THEN Finish(p, o, "403")
           ELSE Local(p, "op_get", o, <<a[1]>>, None, 0, 0, result)
      [] site = "op_get" ->
           LET b == Body(o, r, a[1]) IN
           IF b.raise # "" THEN Finish(p, o, b.raise)
           ELSE Local(p, "upd_get", o, a, b.room, b.expected_version, att, result)
      [] site = "upd_get" ->
           IF version_matches(r, expected_version[p])
           THEN Local(p, "upd_write", o, a, room[p], expected_version[p], att, result)
           ELSE IF att + 1 < MAX_RETRIES
           THEN Local(p, "op_get", o, a, None, 0, att + 1, result)
           ELSE Finish(p, o, "ConcurrentModificationError")

\* Resume with the room read once, before the retry loop, and the same
\* object mutated again in every pass
Resume_reuses_copy(p, site, o, a, att, r) ==
    CASE site = "route_get" ->
           Finish(p, o, IF r = None THEN "404" ELSE "200")
      [] site = "route_sort" ->
           IF r = None THEN Finish(p, o, "404")
           ELSE IF ~verify_chair(r[1], a[2]) THEN Finish(p, o, "403")
           ELSE Local(p, "op_get", o, <<a[1]>>, None, 0, 0, result)
      [] site = "op_get" ->
           LET b == Body(o, IF att > 0 /\ r # None THEN room[p] ELSE r, a[1]) IN
           IF b.raise # "" THEN Finish(p, o, b.raise)
           ELSE Local(p, "upd_get", o, a, b.room, b.expected_version, att, result)
      [] site = "upd_get" ->
           IF version_matches(r, expected_version[p])
           THEN Local(p, "upd_write", o, a, room[p], expected_version[p], att, result)
           ELSE IF o = "set_sorted_keys"
           THEN Finish(p, o, "ConcurrentModificationError")
           ELSE IF att + 1 < MAX_RETRIES
           THEN Local(p, "op_get", o, a, room[p], 0, att + 1, result)
           ELSE Finish(p, o, "ConcurrentModificationError")

Resume(p, site, o, a, att, r) ==
    CASE site = "route_get" ->
           Finish(p, o, IF r = None THEN "404" ELSE "200")
      [] site = "route_sort" ->
           IF r = None THEN Finish(p, o, "404")
           ELSE IF ~verify_chair(r[1], a[2]) THEN Finish(p, o, "403")
           ELSE Local(p, "op_get", o, <<a[1]>>, None, 0, 0, result)
      [] site = "op_get" ->
           LET b == Body(o, r, a[1]) IN
           IF b.raise # "" THEN Finish(p, o, b.raise)
           ELSE Local(p, "upd_get", o, a, b.room, b.expected_version, att, result)
      [] site = "upd_get" ->
           IF version_matches(r, expected_version[p])
           THEN Local(p, "upd_write", o, a, room[p], expected_version[p], att, result)
           ELSE IF o = "set_sorted_keys"
           THEN Finish(p, o, "ConcurrentModificationError")
           ELSE IF att + 1 < MAX_RETRIES
           THEN Local(p, "op_get", o, a, None, 0, att + 1, result)
           ELSE Finish(p, o, "ConcurrentModificationError")

GetSites == {"route_get", "route_sort", "op_get", "upd_get"}
PopSite(site) ==
    CASE site = "route_get" -> "route_get_pop"
      [] site = "route_sort" -> "route_sort_pop"
      [] site = "op_get" -> "op_get_pop"
      [] site = "upd_get" -> "upd_get_pop"
GetSite(popsite) == CHOOSE site \in GetSites : PopSite(site) = popsite
PopSites == { PopSite(site) : site \in GetSites }

\* get_room, lines 39-46 and 54: rooms_dict.get and the expiry test; an
\* expired room is still to be popped (lines 48-52)
get_room(p, site, o, a, att) ==
    IF Stored = None THEN Resume(p, site, o, a, att, None)
    ELSE IF Expired(Stored[1])
    THEN Local(p, PopSite(site), o, a, room[p], expected_version[p], att, result)
    ELSE Resume(p, site, o, a, att, Stored)

\* a new request may arrive for an idle worker
Accepts(p) == pc[p] = "idle" /\ calls > 0

\* ------------------------------------------------------------- the routes
\* A request arrives and runs up to and including its first rooms_dict.get;
\* nothing before that read touches shared state.

\* POST /room/{id}/register
Register(p) ==
    \E encrypted_key \in Keys :
        /\ Accepts(p)
        /\ calls' = calls - 1
        /\ get_room(p, "op_get", "add_participant", <<encrypted_key>>, 0)
        /\ UNCHANGED <<rooms_dict, now, committed, acked, evicted>>

\* POST /room/{id}/message
PostMessage(p) ==
    \E blob \in Blobs :
        /\ Accepts(p)
        /\ calls' = calls - 1
        /\ get_room(p, "op_get", "add_message", <<blob>>, 0)
        /\ UNCHANGED <<rooms_dict, now, committed, acked, evicted>>

\* POST /room/{id}/sort
SortKeys(p) ==
    \E request \in SortRequests :
        /\ Accepts(p)
        /\ calls' = calls - 1
        /\ get_room(p, "route_sort", "set_sorted_keys", request, 0)
        /\ UNCHANGED <<rooms_dict, now, committed, acked, evicted>>

\* GET /room/{id}, /room/{id}/participants, /room/{id}/messages
ReadRoom(p) ==
    /\ Accepts(p)
    /\ calls' = calls - 1
    /\ get_room(p, "route_get", "get_room", <<>>, 0)
    /\ UNCHANGED <<rooms_dict, now, committed, acked, evicted>>

\* the next get_room of a request under way: set_sorted_keys line 112 after
\* the gate, the re-read of _update_room_with_version line 60, and the first
\* line of the next pass of a retry loop (lines 86, 147)
GetRoomRead(p) ==
    /\ pc[p] \in GetSites
    /\ get_room(p, pc[p], op[p], arg[p], attempt[p])
    /\ UNCHANGED <<rooms_dict, now, calls, committed, acked, evicted>>

\* get_room, lines 48-52: rooms_dict.pop of the expired room, return None
GetRoomPop(p) ==
    /\ pc[p] \in PopSites
    /\ rooms_dict' = DictPop(rooms_dict, RoomId)
    /\ evicted' = (evicted \/ RoomId \in DOMAIN rooms_dict)
    /\ Resume(p, GetSite(pc[p]), op[p], arg[p], attempt[p], None)
    /\ UNCHANGED <<now, calls, committed, acked>>

\* _update_room_with_version, lines 64-66, then the operation returns
UpdateWrite(p) ==
    /\ pc[p] = "upd_write"
    /\ rooms_dict' = DictPut(rooms_dict, RoomId,
                             updated_document(room[p][1], expected_version[p]))
    /\ committed' = committed \cup {expected_version[p]}
    /\ acked' = IF op[p] \in {"add_participant", "add_message"}
                THEN acked \cup {arg[p][1]} ELSE acked
    /\ Finish(p, op[p], "ok")
    /\ UNCHANGED <<now, calls, evicted>>

\* The clock moves on by one retention window. get_room reads it only to
\* compare the age of the room with the window, so it is followed until the
\* room has expired.
Tick ==
    /\ ~Expired(NewRoom)
    /\ now' = now + ROOM_TTL_SECONDS
    /\ UNCHANGED <<rooms_dict, pc, op, arg, room, expected_version,
                   attempt, result, calls, committed, acked, evicted>>

Next ==
    \/ Tick
    \/ \E p \in Procs : Register(p)
    \/ \E p \in Procs : PostMessage(p)
    \/ \E p \in Procs : SortKeys(p)
    \/ \E p \in Procs : ReadRoom(p)
    \/ \E p \in Procs : GetRoomRead(p)
    \/ \E p \in Procs : GetRoomPop(p)
    \/ \E p \in Procs : UpdateWrite(p)

Spec == Init /\ [][Next]_vars

\* ------------------------------------------- three requests on an open room
\* Registration is complete (three participants, status OPEN) and three
\* requests are still to arrive: enough for a registration, the sort and a
\* message to overlap.
MaxRaceCalls == 3

InitRace ==
    /\ now = 0
    /\ rooms_dict = DictPut(EmptyDict, RoomId, model_dump_json(RoomAfter(3)))
    /\ committed = 0..2
    /\ acked = { Script[i][2] : i \in 1..3 }
    /\ pc = [p \in Procs |-> "idle"]
    /\ op = [p \in Procs |-> "none"]
    /\ arg = [p \in Procs |-> <<>>]
    /\ room = [p \in Procs |-> None]
    /\ expected_version = [p \in Procs |-> 0]
    /\ attempt = [p \in Procs |-> 0]
    /\ result = [proc |-> 0, op |-> "none", outcome |-> "none"]
    /\ calls = MaxRaceCalls
    /\ evicted = FALSE

SpecRace == InitRace /\ [][Next]_vars

\* ------------------------------------------------------ a burst of requests
\* A room receives a burst of registrations and messages within its
\* retention window, enough of them for one call to lose the race
\* MAX_RETRIES times. The room is new, or six participants have registered
\* and their keys are sorted. The n-th request of the burst registers a key
\* of its own, BurstKeys[n], or the key of the first request again, or it
\* posts a message. Two workers serve the burst: one holds the call that
\* keeps losing, the other serves the winners one after the other.
MaxBurstCalls == 6
BurstProcs == {1, 2}
BurstKeys == <<"k1", "k2", "k3", "k4", "k5", "k6", "k7", "k8">>

BurstScript ==
    << <<"add_participant", "k1">>, <<"add_participant", "k2">>,
       <<"add_participant", "k3">>, <<"add_participant", "k4">>,
       <<"add_participant", "k5">>, <<"add_participant", "k6">>,
       <<"set_sorted_keys", <<"s1", "s2", "s3", "s4", "s5", "s6">> >> >>

\* The stored room after the first n requests of the burst script, each run
\* to completion before the next one starts.
RECURSIVE BurstRoomAfter(_)
BurstRoomAfter(n) ==
    IF n = 0
    THEN model_validate_json(create_room(EmptyDict, NewRoom)[RoomId])
    ELSE LET b == Body(BurstScript[n][1], Some(BurstRoomAfter(n - 1)),
                       BurstScript[n][2])
         IN  model_validate_json(updated_document(b.room[1], b.expected_version))

InitBurst ==
    \E n \in {0, Len(BurstScript)} :
        /\ now = 0
        /\ rooms_dict = DictPut(EmptyDict, RoomId, model_dump_json(BurstRoomAfter(n)))
        /\ committed = 0..(n - 1)
        /\ acked = { BurstScript[i][2] :
                       i \in {j \in 1..n : BurstScript[j][1] # "set_sorted_keys"} }
        /\ pc = [p \in Procs |-> "idle"]
        /\ op = [p \in Procs |-> "none"]
        /\ arg = [p \in Procs |-> <<>>]
        /\ room = [p \in Procs |-> None]
        /\ expected_version = [p \in Procs |-> 0]
        /\ attempt = [p \in Procs |-> 0]
        /\ result = [proc |-> 0, op |-> "none", outcome |-> "none"]
        /\ calls = MaxBurstCalls
        /\ evicted = FALSE

\* POST /room/{id}/register
RegisterBurst(p) ==
    \E encrypted_key \in {BurstKeys[1], BurstKeys[MaxBurstCalls - calls + 1]} :
        /\ Accepts(p)
        /\ calls' = calls - 1
        /\ get_room(p, "op_get", "add_participant", <<encrypted_key>>, 0)
        /\ UNCHANGED <<rooms_dict, now, committed, acked, evicted>>

NextBurst ==
    \/ \E p \in BurstProcs : RegisterBurst(p)
    \/ \E p \in BurstProcs : PostMessage(p)
    \/ \E p \in BurstProcs : GetRoomRead(p)
    \/ \E p \in BurstProcs : UpdateWrite(p)

SpecBurst == InitBurst /\ [][NextBurst]_vars


\* ------------------------------------------------------------- vocabulary
\* request p performs the write of _update_room_with_version in this step
Commits(p) == pc[p] = "upd_write" /\ pc'[p] = "idle"

\* what a complete get_room call returns in the current state
get_room_value == IF Stored = None \/ Expired(Stored[1]) THEN None ELSE Stored

\* ------------------------------------------------------------------ C1
\* C1: no two committing calls used the same expected_version: a call never
\* commits with an expected_version that an earlier commit already used.
C1_DistinctExpectedVersions ==
    [][\A p \in Procs : Commits(p) => expected_version[p] \notin committed]_vars

\* ------------------------------------------------------------------ C2
\* C2: the stored version never decreases, and every write of a mutating
\* operation makes it exactly 1 greater than the version stored just before.
C2_VersionStepsByOne ==
    [][(Stored # None /\ Stored' # None) =>
          /\ Stored'[1].version >= Stored[1].version
          /\ (\E p \in Procs : Commits(p)) =>
                Stored'[1].version = Stored[1].version + 1]_vars

\* ------------------------------------------------------------------ C3
\* C3: no acknowledged mutation is lost: while the room exists, every key
\* whose add_participant returned is in participants and every blob whose
\* add_message returned is in messages.
C3_NoLostAcknowledgedMutation ==
    Stored # None =>
        /\ (acked \cap Keys) \subseteq Range(Stored[1].participants)
        /\ (acked \cap Blobs) \subseteq Range(Stored[1].messages)

\* ------------------------------------------------------------------ C4
\* C4: every change of the stored status is OPEN -> SORTED by a committing
\* set_sorted_keys or SORTED -> MESSAGING by a committing add_message.
C4_StatusMovesForward ==
    [][(Stored # None /\ Stored' # None /\ Stored'[1].status # Stored[1].status) =>
          \E p \in Procs :
              /\ Commits(p)
              /\ \/ /\ Stored[1].status = "OPEN" /\ Stored'[1].status = "SORTED"
                    /\ op[p] = "set_sorted_keys"
                 \/ /\ Stored[1].status = "SORTED" /\ Stored'[1].status = "MESSAGING"
                    /\ op[p] = "add_message"]_vars

\* ------------------------------------------------------------------ C5
\* C5: once the stored sorted_keys is non-empty it never changes while the
\* room exists, its length equals the participants length, and no further
\* set_sorted_keys commits.
C5_SortedKeysWriteOnce ==
    [][(Stored # None /\ Stored[1].sorted_keys # <<>>) =>
          /\ Stored' # None =>
                /\ Stored'[1].sorted_keys = Stored[1].sorted_keys
                /\ Len(Stored'[1].sorted_keys) = Len(Stored'[1].participants)
          /\ \A p \in Procs : ~(Commits(p) /\ op[p] = "set_sorted_keys")]_vars


\* ------------------------------------------------------------------ C6
\* C6: the stored participants never contains the same key twice.
C6_NoDuplicateParticipants ==
    Stored # None =>
        Cardinality(Range(Stored[1].participants)) = Len(Stored[1].participants)

\* a registration of a key that a concurrent request has stored meanwhile
\* has passed its duplicate test and its version check and is about to write
C6_Witness ==
    \E p \in Procs :
        /\ pc[p] = "upd_write" /\ op[p] = "add_participant"
        /\ Stored # None
        /\ arg[p][1] \in Range(Stored[1].participants)

\* ------------------------------------------------------------------ C7
\* C7: every stored record has len(messages) <= len(sorted_keys).
C7_MessagesBoundedBySortedKeys ==
    Stored # None => Len(Stored[1].messages) <= Len(Stored[1].sorted_keys)

\* every slot is taken and a racing add_message that saw a free slot is
\* about to write
C7_Witness ==
    \E p \in Procs :
        /\ pc[p] = "upd_write" /\ op[p] = "add_message"
        /\ Stored # None
        /\ Stored[1].sorted_keys # <<>>
        /\ Len(Stored[1].messages) = Len(Stored[1].sorted_keys)

\* ------------------------------------------------------------------ C8
\* C8: get_room never returns a room with status SORTED and a non-empty
\* messages list: the first message is stored together with MESSAGING.
C8_NoSortedRoomWithMessages ==
    get_room_value # None =>
        ~(get_room_value[1].status = "SORTED" /\ get_room_value[1].messages # <<>>)

\* the first add_message on the SORTED room has returned
C8_Witness ==
    \E p \in Procs :
        /\ result = [proc |-> p, op |-> "add_message", outcome |-> "ok"]
        /\ calls = MaxCalls - 1
        /\ get_room_value # None
        /\ get_room_value[1].status = "MESSAGING"
        /\ Len(get_room_value[1].messages) = 1

\* ------------------------------------------------------------------ C9
\* C9: for a given key at most one add_participant call returns success:
\* no add_participant commits a key that an earlier call was acknowledged for.
C9_OneSuccessPerKey ==
    [][\A p \in Procs :
          (Commits(p) /\ op[p] = "add_participant") => arg[p][1] \notin acked]_vars

\* ------------------------------------------------------------------ C10
\* C10: while the stored status is not OPEN no add_participant call commits,
\* and a registration that arrives at such a room (not yet expired) ends at
\* once with "Registration is closed", the store left alone.
C10_NoRegistrationAfterOpen ==
    [][\A p \in Procs :
          (Stored # None /\ Stored[1].status # "OPEN") =>
             /\ ~(Commits(p) /\ op[p] = "add_participant")
             /\ (Register(p) /\ ~Expired(Stored[1])) =>
                   /\ result' = [proc |-> p, op |-> "add_participant",
                                 outcome |-> "ValueError: Registration is closed"]
                   /\ pc'[p] = "idle"
                   /\ rooms_dict' = rooms_dict]_vars

\* ------------------------------------------------------------- vocabulary
\* the outcomes that are a ValueError (HTTP 400)
ValueErrors ==
    { "ValueError: Room not found", "ValueError: Registration is closed",
      "ValueError: Duplicate registration", "ValueError: Room is not in OPEN state",
      "ValueError: Minimum 3 participants required",
      "ValueError: Sorted keys count must match participants count",
      "ValueError: Duplicate keys in sorted list",
      "ValueError: Cannot send messages before sorting",
      "ValueError: All participants have already submitted" }

\* in this step the get_room at the top of the body of operation o returns
\* to request p (line 86, 112 or 147, in any pass of the retry loop);
\* FirstRead is what it returns. The first pass of add_participant and
\* add_message reads in the step in which the request arrives.
ReturnsFirstRead(p, o) ==
    \/ op[p] = o /\ pc[p] = "op_get" /\ pc'[p] \notin {"op_get", "op_get_pop"}
    \/ op[p] = o /\ pc[p] = "op_get_pop" /\ pc'[p] # "op_get_pop"
    \/ o = "add_participant" /\ Register(p) /\ pc'[p] # "op_get_pop"
    \/ o = "add_message" /\ PostMessage(p) /\ pc'[p] # "op_get_pop"
FirstRead(p) == IF pc[p] \in {"idle", "op_get"} THEN Stored ELSE None

\* in this step request p ends with outcome e
EndsWith(p, o, e) ==
    /\ pc'[p] = "idle"
    /\ result' = [proc |-> p, op |-> o, outcome |-> e]

\* this step does not put a room document into the store: the store is left
\* alone, or the expired record is popped
NoRoomWritten ==
    rooms_dict' = rooms_dict \/ rooms_dict' = DictPop(rooms_dict, RoomId)

\* ------------------------------------------------------------------ C11
\* the conditions under which set_sorted_keys accepts the list for room r
C11_Accepts(r, sorted_keys) ==
    /\ r # None
    /\ r[1].status = "OPEN"
    /\ Len(sorted_keys) >= 3
    /\ Len(sorted_keys) = Len(r[1].participants)
    /\ \A i, j \in DOMAIN sorted_keys : sorted_keys[i] = sorted_keys[j] => i = j

\* C11: set_sorted_keys goes on to its write only if the room it read is
\* OPEN, at least 3 keys are supplied, their count is the participants count
\* and they are pairwise distinct, and a set_sorted_keys that writes stores
\* such a list; in every other case it ends at once with a ValueError and
\* writes no room document.
C11_SortedKeysValidation ==
    [][\A p \in Procs :
          /\ ReturnsFirstRead(p, "set_sorted_keys") =>
                IF C11_Accepts(FirstRead(p), arg[p][1])
                THEN /\ pc'[p] = "upd_get"
                     /\ room'[p] = Some([FirstRead(p)[1] EXCEPT
                                            !.sorted_keys = arg[p][1],
                                            !.status = "SORTED"])
                     /\ rooms_dict' = rooms_dict
                ELSE /\ \E e \in ValueErrors : EndsWith(p, "set_sorted_keys", e)
                     /\ NoRoomWritten
          /\ (op[p] = "set_sorted_keys" /\ Commits(p)) =>
                /\ Len(arg[p][1]) >= 3
                /\ Len(arg[p][1]) = Len(room[p][1].participants)
                /\ Cardinality(Range(arg[p][1])) = Len(arg[p][1])
                /\ Stored'[1].sorted_keys = arg[p][1]]_vars

\* a sort request with two keys and the right secret was refused on a room
\* without participants
C11_Witness ==
    /\ result.op = "set_sorted_keys"
    /\ result.outcome = "ValueError: Minimum 3 participants required"
    /\ Stored # None
    /\ Stored[1].participants = <<>>

\* ------------------------------------------------------------------ C12
\* C12 as stated: an add_message pass whose read of the room shows
\* len(messages) >= len(sorted_keys) ends at once with the slot-exhaustion
\* error and the store unchanged, and one whose read shows an OPEN room ends
\* at once with a ValueError and the store unchanged.
C12_SlotExhaustionAsStated ==
    [][\A p \in Procs :
          (ReturnsFirstRead(p, "add_message") /\ FirstRead(p) # None) =>
             /\ Len(FirstRead(p)[1].messages) >= Len(FirstRead(p)[1].sorted_keys) =>
                   /\ EndsWith(p, "add_message",
                               "ValueError: All participants have already submitted")
                   /\ rooms_dict' = rooms_dict
             /\ FirstRead(p)[1].status = "OPEN" =>
                   /\ \E e \in ValueErrors : EndsWith(p, "add_message", e)
                   /\ rooms_dict' = rooms_dict]_vars

\* C12 amended: an add_message pass whose read shows a room that is not OPEN
\* with len(messages) >= len(sorted_keys) ends at once with the
\* slot-exhaustion error, and one whose read shows an OPEN room ends at once
\* with "Cannot send messages before sorting"; neither is retried and the
\* store is left unchanged.
C12_SlotExhaustion ==
    [][\A p \in Procs :
          (ReturnsFirstRead(p, "add_message") /\ FirstRead(p) # None) =>
             /\ ( /\ FirstRead(p)[1].status # "OPEN"
                  /\ Len(FirstRead(p)[1].messages) >= Len(FirstRead(p)[1].sorted_keys) ) =>
                   /\ EndsWith(p, "add_message",
                               "ValueError: All participants have already submitted")
                   /\ rooms_dict' = rooms_dict
             /\ FirstRead(p)[1].status = "OPEN" =>
                   /\ EndsWith(p, "add_message",
                               "ValueError: Cannot send messages before sorting")
                   /\ rooms_dict' = rooms_dict]_vars

\* the fourth post on the room with three sorted keys and three messages
\* was refused
C12_Witness ==
    /\ result.op = "add_message"
    /\ result.outcome = "ValueError: All participants have already submitted"
    /\ Stored # None
    /\ Len(Stored[1].sorted_keys) = 3
    /\ Len(Stored[1].messages) = 3

\* ------------------------------------------------------------------ C13
\* in this step a request of worker p ends (a request that ends in the step
\* in which it arrives moves no worker)
Ends(p) ==
    /\ pc'[p] = "idle"
    /\ result'.proc = p
    /\ pc[p] # "idle" \/ (calls' # calls /\ pc' = pc)

\* C13: once the age of the room exceeds the retention window every
\* get_room returns None, also after a stale write has put the record back:
\* a get_room that finds the record pops it, no route answers 200 or gets
\* past its None test, no operation body gets a room to validate and no
\* version re-read succeeds.
C13_EvictionPermanent ==
    [][(now - NewRoom.created_at > ROOM_TTL_SECONDS) =>
          /\ get_room_value = None
          /\ \A p \in Procs :
                /\ (pc[p] \in PopSites /\ pc'[p] # pc[p]) =>
                      RoomId \notin DOMAIN rooms_dict'
                /\ pc'[p] \in {"upd_get", "upd_write"} => pc'[p] = pc[p]
                /\ pc'[p] = "op_get" => pc[p] \in {"op_get", "upd_get", "upd_get_pop"}
                /\ (Ends(p) /\ ~Commits(p)) =>
                      result'.outcome \in {"404", "ValueError: Room not found",
                                           "ConcurrentModificationError"}]_vars

\* the expired record was popped, a request that had passed its re-read
\* wrote it back, and a later get_room has found it expired again
C13_Witness ==
    /\ evicted
    /\ Stored # None
    /\ now - NewRoom.created_at > ROOM_TTL_SECONDS
    /\ \E p \in Procs : pc[p] \in PopSites

\* ------------------------------------------------------------------ C14
\* in this step the sort request arrives at worker p and runs up to the
\* return of the get_room of line 117
SortRequestArrives(p, request) ==
    /\ Accepts(p)
    /\ calls' = calls - 1
    /\ get_room(p, "route_sort", "set_sorted_keys", request, 0)
    /\ UNCHANGED <<rooms_dict, now, committed, acked, evicted>>

\* C14: a sort request that finds the room goes on to set_sorted_keys only
\* if a non-empty secret was supplied whose SHA-256 is the stored
\* chair_secret_hash, and otherwise ends with 403 and the store unchanged;
\* and the stored status leaves OPEN only in the write of a set_sorted_keys
\* request, every one of which has passed the gate.
C14_ChairGate ==
    [][/\ \A p \in Procs : \A request \in SortRequests :
             (SortRequestArrives(p, request) /\ get_room_value # None) =>
                IF /\ request[2] # <<>>
                   /\ request[2][1] # ""
                   /\ sha256(request[2][1]) = Stored[1].chair_secret_hash
                THEN pc'[p] = "op_get" /\ op'[p] = "set_sorted_keys"
                ELSE /\ EndsWith(p, "set_sorted_keys", "403")
                     /\ rooms_dict' = rooms_dict
       /\ ( /\ Stored # None /\ Stored' # None
            /\ Stored[1].status = "OPEN" /\ Stored'[1].status # "OPEN" ) =>
             \E p \in Procs : Commits(p) /\ op[p] = "set_sorted_keys"]_vars

\* ------------------------------------------------------------------ C15
\* in this step a get_room called by request p returns None: it pops the
\* expired record, or it finds no record
GetRoomReturnsNone(p) ==
    \/ pc[p] \in PopSites /\ pc'[p] # pc[p]
    \/ Stored = None /\ pc[p] \in GetSites /\ pc'[p] # pc[p]
    \/ Stored = None /\ pc[p] = "idle" /\ Ends(p)

\* the outcomes that tell the caller that the room does not exist
NotFound == {"404", "ValueError: Room not found"}

\* C15: a register, sort or message request that ends because a get_room
\* returned None to it, at its first read or at its version re-read, ends
\* with a not-found outcome.
C15_MissingRoomIsNotFound ==
    [][\A p \in Procs :
          ( /\ Ends(p)
            /\ result'.op \in {"add_participant", "set_sorted_keys", "add_message"}
            /\ GetRoomReturnsNone(p) ) =>
             result'.outcome \in NotFound]_vars

\* ------------------------------------------------------------------ C16
\* the store accesses of one pass of a retry loop, in the order they are made
Stage(l) ==
    CASE l = "op_get" -> 0 [] l = "op_get_pop" -> 1 [] l = "upd_get" -> 2
      [] l = "upd_get_pop" -> 3 [] l = "upd_write" -> 4

\* an upper bound on the number of store accesses the call still makes
Rank(l, att) == IF l = "idle" THEN 0 ELSE 5 * (MAX_RETRIES - att) - Stage(l)

\* the version check of line 61 fails for request p in this step
VersionCheckFails(p) ==
    /\ \/ pc[p] = "upd_get" /\ pc'[p] \notin {"upd_get", "upd_get_pop"}
       \/ pc[p] = "upd_get_pop" /\ pc'[p] # "upd_get_pop"
    /\ pc'[p] # "upd_write"

\* C16: an add_participant or add_message call makes at most MAX_RETRIES
\* passes and every store access brings it closer to its end; it starts a
\* further pass only when its version check failed, ends with
\* ConcurrentModificationError only when the check of its fifth pass failed,
\* and after the read of a pass it either goes on to the version check or
\* ends with a ValueError.
C16_BoundedRetries ==
    [][\A p \in Procs : \A o \in {"add_participant", "add_message"} :
          /\ op[p] = o =>
                /\ attempt[p] \in 0..(MAX_RETRIES - 1)
                /\ Rank(pc[p], attempt[p]) > 0
                /\ pc'[p] # pc[p] =>
                      Rank(pc'[p], attempt'[p]) < Rank(pc[p], attempt[p])
                /\ (pc'[p] # "idle" /\ attempt'[p] # attempt[p]) =>
                      /\ VersionCheckFails(p)
                      /\ attempt'[p] = attempt[p] + 1
                      /\ pc'[p] = "op_get"
                /\ (Ends(p) /\ result'.outcome = "ConcurrentModificationError") =>
                      /\ VersionCheckFails(p)
                      /\ attempt[p] = MAX_RETRIES - 1
                /\ VersionCheckFails(p) =>
                      \/ pc'[p] = "op_get" /\ attempt'[p] = attempt[p] + 1
                      \/ EndsWith(p, o, "ConcurrentModificationError")
          /\ ReturnsFirstRead(p, o) =>
                \/ pc'[p] = "upd_get" /\ attempt'[p] = attempt[p]
                \/ \E e \in ValueErrors : EndsWith(p, o, e)]_vars

\* a registration has ended with ConcurrentModificationError after the five
\* other registrations of the burst each committed between one of its reads
\* and the version check that followed
C16_Witness ==
    /\ result.op = "add_participant"
    /\ result.outcome = "ConcurrentModificationError"
    /\ calls = 0
    /\ Stored # None
    /\ Stored[1].version = MAX_RETRIES
    /\ Len(Stored[1].participants) = MAX_RETRIES

\* ------------------------------------------------------------------ C17
\* C17: set_sorted_keys makes one pass only: when its version check fails,
\* in particular when the re-read shows a version other than the one it
\* read first, the call ends in that step with
\* ConcurrentModificationError, starts no further pass and writes no room
\* document, so the stored record stays as the other writer left it.
C17_SortSingleAttempt ==
    [][\A p \in Procs :
          op[p] = "set_sorted_keys" =>
             /\ attempt[p] = 0 /\ attempt'[p] = 0
             /\ pc[p] \in {"upd_get", "upd_get_pop", "upd_write"} => pc'[p] # "op_get"
             /\ VersionCheckFails(p) =>
                   /\ EndsWith(p, "set_sorted_keys", "ConcurrentModificationError")
                   /\ NoRoomWritten
             /\ ( /\ pc[p] = "upd_get" /\ pc'[p] # pc[p]
                  /\ get_room_value # None
                  /\ get_room_value[1].version # expected_version[p] ) =>
                   /\ EndsWith(p, "set_sorted_keys", "ConcurrentModificationError")
                   /\ rooms_dict' = rooms_dict]_vars

\* a registration of a fourth key committed between the read and the
\* re-read of a sort, and the sort has ended with
\* ConcurrentModificationError: the fourth key is still stored
C17_Witness ==
    /\ result.op = "set_sorted_keys"
    /\ result.outcome = "ConcurrentModificationError"
    /\ now = 0
    /\ Stored # None
    /\ Stored[1].status = "OPEN"
    /\ Len(Stored[1].participants) = 4

\* ------------------------------------------------------------------ C18
\* the copy c is the record r with, at most, one participant or one message
\* appended and status and sorted_keys set
OneChangeOf(c, r) ==
    /\ c.id = r.id /\ c.params = r.params /\ c.created_at = r.created_at
    /\ c.session_public_key = r.session_public_key
    /\ c.chair_secret_hash = r.chair_secret_hash
    /\ c.version = r.version
    /\ Len(c.participants) \in {Len(r.participants), Len(r.participants) + 1}
    /\ SubSeq(c.participants, 1, Len(r.participants)) = r.participants
    /\ Len(c.messages) \in {Len(r.messages), Len(r.messages) + 1}
    /\ SubSeq(c.messages, 1, Len(r.messages)) = r.messages

\* C18: a room document is put into the store only in the step in which a
\* call returns success, so a call that ends with a ValueError or a
\* ConcurrentModificationError has written none and has left the store
\* alone but for popping an expired record; a failed pass drops its copy,
\* and the copy a pass validates and writes is built from the record that
\* pass has read.
C18_FailedCallsWriteNothing ==
    [][/\ ~NoRoomWritten =>
             \E p \in Procs :
                 /\ Commits(p)
                 /\ EndsWith(p, op[p], "ok")
                 /\ Stored' = Some([room[p][1] EXCEPT !.version = expected_version[p] + 1])
       /\ \A p \in Procs :
             (pc'[p] # pc[p] \/ calls' # calls) =>
                /\ ( /\ Ends(p)
                     /\ result'.outcome \in ValueErrors \cup {"ConcurrentModificationError"} ) =>
                      NoRoomWritten
                /\ (VersionCheckFails(p) /\ pc'[p] = "op_get") => room'[p] = None
                /\ (pc'[p] = "upd_get" /\ pc[p] \in {"idle", "op_get"}) =>
                      /\ Stored # None
                      /\ OneChangeOf(room'[p][1], Stored[1])
                      /\ expected_version'[p] = Stored[1].version
                /\ (pc[p] = "upd_get" /\ pc'[p] \in {"upd_get_pop", "upd_write"}) =>
                      room'[p] = room[p]
                /\ (pc[p] = "upd_get_pop" /\ pc'[p] = "upd_write") => FALSE]_vars

\* the first pass of a registration has failed its version check, and its
\* second pass is about to write a copy built from the record the winner
\* left
C18_Witness ==
    \E p \in Procs :
        /\ pc[p] = "upd_write" /\ op[p] = "add_participant" /\ attempt[p] = 1
        /\ Stored # None
        /\ room[p][1].participants = Append(Stored[1].participants, arg[p][1])
        /\ Stored[1].version = expected_version[p]

\* ------------------------------------------------------------------ C19
\* C19: every record stored under the room id carries the id, params,
\* session_public_key, chair_secret_hash and created_at of the record that
\* create_room wrote.
C19_ImmutableFields ==
    Stored # None =>
        /\ Stored[1].id = NewRoom.id
        /\ Stored[1].params = NewRoom.params
        /\ Stored[1].session_public_key = NewRoom.session_public_key
        /\ Stored[1].chair_secret_hash = NewRoom.chair_secret_hash
        /\ Stored[1].created_at = NewRoom.created_at

\* well into the life of the room two registrations have raced: both have
\* written and returned, the later write over the earlier one
C19_Witness ==
    /\ now > 0
    /\ Stored # None
    /\ acked = {"k1", "k2"}
    /\ Len(Stored[1].participants) = 1
    /\ Stored[1].version = 1

\* ------------------------------------------------------------------ C20
\* C20: in every stored record, status OPEN goes with empty sorted_keys and
\* messages, and status SORTED or MESSAGING goes with at least 3 pairwise
\* distinct sorted_keys, as many as there are participants.
C20_StructuralInvariant ==
    Stored # None =>
        /\ Stored[1].status \in {"OPEN", "SORTED", "MESSAGING"}
        /\ Stored[1].status = "OPEN" =>
              Stored[1].sorted_keys = <<>> /\ Stored[1].messages = <<>>
        /\ Stored[1].status \in {"SORTED", "MESSAGING"} =>
              /\ Len(Stored[1].sorted_keys) >= 3
              /\ \A i, j \in DOMAIN Stored[1].sorted_keys :
                    Stored[1].sorted_keys[i] = Stored[1].sorted_keys[j] => i = j
              /\ Len(Stored[1].sorted_keys) = Len(Stored[1].participants)

\* two messages have raced on the sorted room: both have written and
\* returned, the later write over the earlier one
C20_Witness ==
    /\ Stored # None
    /\ Stored[1].status = "MESSAGING"
    /\ acked \cap Blobs = {"b1", "b2"}
    /\ Len(Stored[1].messages) = 1

====
